---- MODULE Spec2Model ----
(***************************************************************************)
(* A model of fishutils.py: the structural locator (find_index), the enum  *)
(* index resolver (get_index, Repository.parse_indices), the definition    *)
(* index (Repository.search_def), the value patcher                        *)
(* (Repository.process_spsa_match driven by InputParser.process) and the   *)
(* column aligner (Repository.align, Repository.align_array).              *)
(*                                                                         *)
(* Texts are strings, i.e. sequences of characters.  Offsets are Python's: *)
(* zero-based, and -1 is what str.find returns when nothing is found.      *)
(***************************************************************************)
EXTENDS Integers, Sequences, FiniteSets, TLC

VARIABLES
    files,      \* Repository.files: sequence of [orig, curr] (SourceFile)
    before,     \* the curr/orig of every file when the last request started
    line,       \* the input line handled last by InputParser.process
    outcome,    \* how the handling of that line ended
    nproc,      \* number of input lines handled so far
    pc,         \* position of the running procedure
    arg,        \* arguments of the function under study (pure specifications)
    res,        \* its result
    current,    \* align_array: local variable current
    previous,   \* align_array: local variable previous
    passes,     \* align_array: number of passes of the loop made so far
    rounding    \* args.rounding: the key of the rounding function of the run

vars == <<files, before, line, outcome, nproc, pc, arg, res, current, previous, passes, rounding>>

----------------------------------------------------------------------------
(* Bounds of the model.                                                    *)

\* the greatest index component of a path given to find_index
MaxIdx == 3
\* the greatest number of components of such a path
MaxDims == 2
\* the greatest number of input lines of one run of InputParser.process
MaxRequests == 2
\* the greatest number of entries of an enum block
MaxEntries == 3
\* the greatest number of rows of a definition given to align_array
MaxRows == 3
\* the number of passes after which the loop of align_array is cut off
MaxPasses == 6

----------------------------------------------------------------------------
(* Characters and the regular-expression classes the source uses.          *)

Min(a, b) == IF a < b THEN a ELSE b
Max(a, b) == IF a > b THEN a ELSE b

\* In(v): the value v is computed and then used under the name In gives it
Let(v, In(_)) == In(v)

Digit == {"0", "1", "2", "3", "4", "5", "6", "7", "8", "9"}

Letter ==
    {"a", "b", "c", "d", "e", "f", "g", "h", "i", "j", "k", "l", "m",
     "n", "o", "p", "q", "r", "s", "t", "u", "v", "w", "x", "y", "z",
     "A", "B", "C", "D", "E", "F", "G", "H", "I", "J", "K", "L", "M",
     "N", "O", "P", "Q", "R", "S", "T", "U", "V", "W", "X", "Y", "Z"}

\* \w
WordCh == Letter \cup Digit \cup {"_"}

\* \s
SpaceCh == {" ", "\t", "\n", "\r", "\f"}

\* [ \t]
BlankCh == {" ", "\t"}

\* [-\d]
NumCh == Digit \cup {"-"}

----------------------------------------------------------------------------
(* Python's str primitives, on zero-based offsets.                         *)

\* s[i] for 0 <= i < len(s); "" outside (used only for look-ahead tests)
ch(s, i) == IF i >= 0 /\ i < Len(s) THEN SubSeq(s, i + 1, i + 1) ELSE ""

\* a slice bound as Python normalises it: negative counts from the end
norm(i, n) == IF i < 0 THEN Max(i + n, 0) ELSE Min(i, n)

\* s[a:b]
slice(s, a, b) == SubSeq(s, norm(a, Len(s)) + 1, norm(b, Len(s)))

\* s[a:]
slice_from(s, a) == slice(s, a, Len(s))

\* whether sub occurs in s at offset i
at(s, sub, i) == i >= 0 /\ i + Len(sub) <= Len(s) /\ SubSeq(s, i + 1, i + Len(sub)) = sub

\* the least element of a non-empty set of integers
SetMin(S) == CHOOSE x \in S : \A y \in S : x <= y

\* the first offset at or after i where sub occurs in s, or -1
find_from(s, sub, i) ==
    LET hits == {k \in i .. (Len(s) - Len(sub)) : at(s, sub, k)}
    IN  IF hits = {} THEN -1 ELSE SetMin(hits)

\* s.find(sub, start)
str_find(s, sub, start) == find_from(s, sub, norm(start, Len(s)))

\* the number of occurrences of the character c in s[i:j]
count_in(s, c, i, j) == Cardinality({k \in i .. (j - 1) : ch(s, k) = c})

\* s.count(c, start, end), c a single character
str_count(s, c, start, end) == count_in(s, c, norm(start, Len(s)), norm(end, Len(s)))

----------------------------------------------------------------------------
(* find_index: the structural locator.                                     *)

\* while s.count("{", 0, pos_new+1) - s.count("}", 0, pos_new+1) > d + 1
RECURSIVE skip_braces(_, _, _)
skip_braces(s, d, pos_new) ==
    IF str_count(s, "{", 0, pos_new + 1) - str_count(s, "}", 0, pos_new + 1) > d + 1
    THEN skip_braces(s, d, str_find(s, "}", pos_new + 1))
    ELSE pos_new

\* while s.count("(", pos, pos_new+1) - s.count(")", pos, pos_new+1) > 0
RECURSIVE skip_parens(_, _, _)
skip_parens(s, pos, pos_new) ==
    IF str_count(s, "(", pos, pos_new + 1) - str_count(s, ")", pos, pos_new + 1) > 0
    THEN skip_parens(s, pos, str_find(s, ")", pos_new + 1))
    ELSE pos_new

\* the separator a candidate comma is corrected to (the last line of the loop body)
next_separator(s, pos_new) == str_find(s, ",", pos_new)

\* one pass of the inner loop body: from pos to the next separator
advance(s, d, pos) ==
    LET c0 == str_find(s, ",", pos + 1)
        c1 == skip_braces(s, d, c0)
        c2 == skip_parens(s, pos, c1)
    IN  next_separator(s, c2)

\* for i in range(n): the loop body n times.  An offset is never below -1; the
\* test settles the offset of one pass before the next pass starts.
RECURSIVE advance_n(_, _, _, _)
advance_n(s, d, pos, n) ==
    IF n <= 0 \/ pos < -1 THEN pos ELSE advance_n(s, d, advance(s, d, pos), n - 1)

\* for d in range(len(l)), from dimension d (zero-based) on
RECURSIVE walk_dims(_, _, _, _)
walk_dims(s, l, d, pos) ==
    IF d >= Len(l) THEN pos
    ELSE walk_dims(s, l, d + 1, advance_n(s, d, pos, l[d + 1]))

find_index(s, l) ==
    LET pos0 == str_find(s, "=", 0)
        pos1 == str_find(s, "{", pos0) + 1
    IN  walk_dims(s, l, 0, pos1)

----------------------------------------------------------------------------
(* Runs of a character class, as a greedy  [class]*  consumes them.        *)

\* the offset where the maximal run of class C starting at i ends
run_end(s, i, C) ==
    IF i >= Len(s) THEN i
    ELSE CHOOSE k \in i .. Len(s) :
            ch(s, k) \notin C /\ \A n \in i .. (k - 1) : ch(s, n) \in C

\* the offset where the maximal run of class C ending before i starts
run_start(s, i, C) ==
    IF i <= 0 THEN i
    ELSE CHOOSE k \in 0 .. i :
            ch(s, k - 1) \notin C /\ \A n \in k .. (i - 1) : ch(s, n) \in C

\* whether every character of s[a:b] is of class C
all_in(s, a, b, C) == \A k \in a .. (b - 1) : ch(s, k) \in C

\* ^ under re.MULTILINE: offset 0 and every offset that follows a newline
is_line_start(s, p) == p = 0 \/ ch(s, p - 1) = "\n"

line_starts(s) == {p \in 0 .. Len(s) : is_line_start(s, p)}

\* the greatest element of a non-empty set of integers
SetMax(S) == -SetMin({-x : x \in S})

NoMatch == [ok |-> FALSE]

----------------------------------------------------------------------------
(* int(), float(), str() and the rounding functions.                       *)

DigitVal(c) ==
    CASE c = "0" -> 0 [] c = "1" -> 1 [] c = "2" -> 2 [] c = "3" -> 3
      [] c = "4" -> 4 [] c = "5" -> 5 [] c = "6" -> 6 [] c = "7" -> 7
      [] c = "8" -> 8 [] c = "9" -> 9

RECURSIVE digits_val(_, _, _, _)
digits_val(s, i, j, acc) ==
    IF i >= j THEN acc ELSE digits_val(s, i + 1, j, 10 * acc + DigitVal(ch(s, i)))

RECURSIVE pow10(_)
pow10(n) == IF n <= 0 THEN 1 ELSE 10 * pow10(n - 1)

\* int(t) of a text: blanks around it are stripped, one sign, then digits only;
\* anything else raises ValueError (ok = FALSE)
py_int(t) ==
    Let(run_end(t, 0, SpaceCh), LAMBDA a :
    Let(run_start(t, Len(t), SpaceCh), LAMBDA b :
    Let(IF ch(t, a) \in {"-", "+"} THEN a + 1 ELSE a, LAMBDA d0 :
        IF d0 < b /\ all_in(t, d0, b, Digit)
        THEN [ok |-> TRUE,
              val |-> (IF ch(t, a) = "-" THEN -1 ELSE 1) * digits_val(t, d0, b, 0)]
        ELSE NoMatch)))

\* float(t) of a text in decimal notation (sign, digits, an optional fraction),
\* as the exact fraction num / den; other texts raise ValueError
py_float(t) ==
    Let(run_end(t, 0, SpaceCh), LAMBDA a :
    Let(run_start(t, Len(t), SpaceCh), LAMBDA b :
    Let(IF ch(t, a) \in {"-", "+"} THEN a + 1 ELSE a, LAMBDA d0 :
    Let(run_end(t, d0, Digit), LAMBDA d1 :
    Let(IF ch(t, d1) = "." THEN d1 + 1 ELSE d1, LAMBDA f0 :
    Let(run_end(t, f0, Digit), LAMBDA f1 :
        IF f1 = b /\ (d1 > d0 \/ f1 > f0) /\ b <= Len(t)
        THEN [ok |-> TRUE,
              num |-> (IF ch(t, a) = "-" THEN -1 ELSE 1)
                      * (digits_val(t, d0, d1, 0) * pow10(f1 - f0) + digits_val(t, f0, f1, 0)),
              den |-> pow10(f1 - f0)]
        ELSE NoMatch))))))

\* floor and ceil of num / den, den > 0
py_floor(num, den) == num \div den
py_ceil(num, den) == -((-num) \div den)

\* int(x): truncation toward zero
py_trunc(num, den) == IF num >= 0 THEN num \div den ELSE -((-num) \div den)

\* round(x) of Python 2: to the nearest integer, a half away from zero
py_round(num, den) ==
    IF num >= 0 THEN (2 * num + den) \div (2 * den)
    ELSE -((2 * (-num) + den) \div (2 * den))

\* ROUNDING[name] applied to num / den, then int()
apply_rounding(f_round, num, den) ==
    CASE f_round = "round" -> py_round(num, den)
      [] f_round = "ceil" -> py_ceil(num, den)
      [] f_round = "floor" -> py_floor(num, den)

DigitStr(d) ==
    CASE d = 0 -> "0" [] d = 1 -> "1" [] d = 2 -> "2" [] d = 3 -> "3"
      [] d = 4 -> "4" [] d = 5 -> "5" [] d = 6 -> "6" [] d = 7 -> "7"
      [] d = 8 -> "8" [] d = 9 -> "9"

RECURSIVE nat_str(_)
nat_str(n) == IF n < 10 THEN DigitStr(n) ELSE nat_str(n \div 10) \o DigitStr(n % 10)

\* str(n) of an integer
py_str(n) == IF n < 0 THEN "-" \o nat_str(-n) ELSE nat_str(n)

RECURSIVE spaces(_)
spaces(n) == IF n <= 0 THEN "" ELSE " " \o spaces(n - 1)

\* t.rjust(width)
rjust(t, width) == spaces(width - Len(t)) \o t


----------------------------------------------------------------------------
(* Repository.search_def: the definition index.                            *)
(* A match is [ok, start, end, ...]: the span s[start:end] is m.group().   *)

\* [\w \t]
QualCh == WordCh \cup BlankCh

\* [^=;\\\{\}\[\]] is the complement of this set
DimStop == {"=", ";", "\\", "{", "}", "[", "]", ""}

\* the offset of the first character at or after i that is in Stop
scan_to(s, i, Stop) ==
    IF i >= Len(s) THEN i
    ELSE CHOOSE k \in i .. Len(s) :
            ch(s, k) \in Stop /\ \A n \in i .. (k - 1) : ch(s, n) \notin Stop

\* (\[[^=;\\\{\}\[\]]*\])* from offset i: the offset after the last group
RECURSIVE dim_groups_end(_, _)
dim_groups_end(s, i) ==
    IF ch(s, i) = "["
    THEN LET j == scan_to(s, i + 1, DimStop)
         IN  IF ch(s, j) = "]" THEN dim_groups_end(s, j + 1) ELSE i
    ELSE i

\* (\[...\])*[ \t]*=  from offset i: the offset of the "=", or -1
dims_then_eq(s, i) ==
    Let(run_end(s, dim_groups_end(s, i), BlankCh), LAMBDA e :
        IF ch(s, e) = "=" THEN e ELSE -1)

\* ((\[|\s)?(\[...\])*[ \t]*)?=  after the name, which ends at qe: the offset of
\* the "=", or -1.  (\[|\s)? takes one character first and gives it back on failure.
after_name_eq(s, qe) ==
    Let(IF ch(s, qe) \in ({"["} \cup SpaceCh) THEN dims_then_eq(s, qe + 1) ELSE -1, LAMBDA taken :
        IF taken # -1 THEN taken ELSE dims_then_eq(s, qe))

\* =(?P<def>(?!=)[^;]*?);  with the "=" at eq: the offset of the ";", or -1
def_semicolon(s, eq) ==
    IF eq = -1 \/ ch(s, eq + 1) = "=" THEN -1 ELSE str_find(s, ";", eq + 1)

\* [\w \t]*\s+ matches exactly s[p:e]
qualifiers_match(s, p, e) ==
    /\ e > p
    /\ ch(s, e - 1) \in SpaceCh
    /\ all_in(s, p, run_start(s, e, SpaceCh), QualCh)

\* (?P<type>\w+)\s+  ends exactly at q: the offset where the type starts, or -1
type_start(s, q) ==
    LET t1 == run_start(s, q, SpaceCh)
        t0 == run_start(s, t1, WordCh)
    IN  IF t1 < q /\ t0 < t1 THEN t0 ELSE -1

\* the match of the variable pattern that starts at line start p with the name at q
def_match_at(s, varname, p, q) ==
    Let(type_start(s, q), LAMBDA t0 :
    Let(run_start(s, q, SpaceCh), LAMBDA t1 :
    Let(after_name_eq(s, q + Len(varname)), LAMBDA eq :
    Let(def_semicolon(s, eq), LAMBDA semi :
        [ok |-> /\ at(s, varname, q)
                /\ t0 # -1
                /\ semi # -1,
         byqual |-> t0 > p /\ qualifiers_match(s, p, t0),
         bare |-> t0 # -1 /\ t0 <= p /\ all_in(s, p, t1, WordCh) /\ p < t1,
         start |-> p, end |-> semi + 1,
         type |-> slice(s, IF t0 > p THEN t0 ELSE p, t1),
         def_start |-> eq + 1]))))

\* The variable pattern tried at line start p.  The first alternative of
\* ([\w \t]*\s+|) is greedy, so the rightmost name it admits wins; the empty
\* alternative comes second.
def_match_from(s, varname, p) ==
    Let([q \in {n \in (p + 1) .. Len(s) : at(s, varname, n)} |-> def_match_at(s, varname, p, q)],
        LAMBDA m :
    Let({q \in DOMAIN m : m[q].ok /\ m[q].byqual}, LAMBDA byq :
    Let({q \in DOMAIN m : m[q].ok /\ m[q].bare}, LAMBDA bare :
        IF byq # {} THEN m[SetMax(byq)]
        ELSE IF bare # {} THEN m[SetMax(bare)]
        ELSE NoMatch)))

\* The enum pattern tried at line start p:
\*   ^\s*enum\s*[\w\s:]*{([^{}]*?(\s|,))?NAME(\s|,|}).*?;
enum_match_from(s, varname, p) ==
    LET follows(n) == ch(s, n + Len(varname)) \in (SpaceCh \cup {",", "}"})
        semi_of(n) == str_find(s, ";", n + Len(varname) + 1)
    IN  Let(run_end(s, p, SpaceCh), LAMBDA a :
        Let(run_end(s, a + 4, WordCh \cup SpaceCh \cup {":"}), LAMBDA brace :
        Let(brace + 1, LAMBDA c :
        Let(scan_to(s, c, {"{", "}", ""}), LAMBDA close :
        Let({n \in (c + 1) .. close :
                at(s, varname, n)
                /\ ch(s, n - 1) \in (SpaceCh \cup {","}) /\ follows(n)}, LAMBDA inner :
        Let(IF inner # {} /\ semi_of(SetMin(inner)) # -1 THEN SetMin(inner)
            ELSE IF at(s, varname, c) /\ follows(c) THEN c ELSE -1, LAMBDA n0 :
            IF /\ at(s, "enum", a)
               /\ ch(s, brace) = "{"
               /\ n0 # -1
               /\ semi_of(n0) # -1
            THEN [ok |-> TRUE, start |-> p, end |-> semi_of(n0) + 1, type |-> "",
                  def_start |-> c]
            ELSE NoMatch))))))

\* re.search(pattern, s, re.DOTALL | re.MULTILINE): the match at the leftmost
\* line start that has one
search_in(s, varname, enum) ==
    Let([p \in line_starts(s) |-> IF enum THEN enum_match_from(s, varname, p)
                                  ELSE def_match_from(s, varname, p)], LAMBDA try :
    Let({p \in DOMAIN try : try[p].ok}, LAMBDA hits :
        IF hits = {} THEN NoMatch ELSE try[SetMin(hits)]))

\* for f in self.files: the first file with a match; [ok, file, start, end, type]
RECURSIVE search_files(_, _, _, _)
search_files(fs, varname, enum, k) ==
    IF k > Len(fs) THEN NoMatch
    ELSE Let(search_in(fs[k].curr, varname, enum), LAMBDA m :
             IF m.ok THEN [ok |-> TRUE, file |-> k, start |-> m.start, end |-> m.end,
                           type |-> m.type, def_start |-> m.def_start]
             ELSE search_files(fs, varname, enum, k + 1))

search_def(fs, varname, enum) == search_files(fs, varname, enum, 1)

\* m.group(): the matched text
group0(fs, m) == slice(fs[m.file].curr, m.start, m.end)


----------------------------------------------------------------------------
(* get_index and Repository.parse_indices: the index resolver.             *)

\* NAME\s*=\s*(-)?\d+ (signed) or NAME\s*=\s*\d+ tried at offset i: the span of the
\* number, [ok, vstart, vend]
assign_at(text, name, signed, i) ==
    Let(run_end(text, i + Len(name), SpaceCh), LAMBDA e :
    Let(run_end(text, e + 1, SpaceCh), LAMBDA v0 :
    Let(IF signed /\ ch(text, v0) = "-" THEN v0 + 1 ELSE v0, LAMBDA d0 :
    Let(run_end(text, d0, Digit), LAMBDA d1 :
        IF at(text, name, i) /\ ch(text, e) = "=" /\ d1 > d0
        THEN [ok |-> TRUE, vstart |-> v0, vend |-> d1]
        ELSE NoMatch))))

\* re.search of that pattern: the leftmost offset where it matches
assign_search(text, name, signed) ==
    Let({i \in 0 .. Len(text) : assign_at(text, name, signed, i).ok}, LAMBDA hits :
        IF hits = {} THEN NoMatch ELSE assign_at(text, name, signed, SetMin(hits)))

get_index(enum, entry) ==
    Let(assign_search(enum, entry, TRUE), LAMBDA m :
        IF m.ok
        THEN py_int(slice(enum, m.vstart, m.vend)).val
        ELSE str_count(slice(enum, 0, str_find(enum, entry, 0)), ",", 0, Len(enum)))

\* one index token: int(i), else the enum that holds it; [ok, val]
index_value(fs, tok) ==
    Let(py_int(tok), LAMBDA n :
        IF n.ok THEN n
        ELSE Let(search_def(fs, tok, TRUE), LAMBDA m :
                 IF m.ok THEN [ok |-> TRUE, val |-> get_index(group0(fs, m), tok)]
                 ELSE NoMatch))

\* the while loop of parse_indices; ok = FALSE where the code raises
RECURSIVE parse_indices_loop(_, _, _)
parse_indices_loop(fs, s, l) ==
    Let(str_find(s, "[", 0), LAMBDA p1 :
    Let(str_find(s, "]", 0), LAMBDA p2 :
        IF s = "" \/ p1 = -1 \/ p2 = -1 \/ p1 + 1 >= p2
        THEN [ok |-> TRUE, l |-> l]
        ELSE Let(index_value(fs, slice(s, p1 + 1, p2)), LAMBDA i :
                 IF i.ok THEN parse_indices_loop(fs, slice_from(s, p2 + 1), Append(l, i.val))
                 ELSE [ok |-> FALSE, l |-> l])))

parse_indices(fs, s) == parse_indices_loop(fs, s, <<>>)

----------------------------------------------------------------------------
(* The value patterns of process_spsa_match.                               *)
(* A match is [ok, g]: g maps each group name to its span <<start, end>>,  *)
(* None for a group that did not take part.                                *)

None == <<-1, -1>>

\* \s*[-\d]+ from offset a: the offset where it ends, or -1
number_end(t, a, lead) ==
    Let(run_end(t, a, lead), LAMBDA b :
    Let(run_end(t, b, NumCh), LAMBDA e :
        IF e > b THEN e ELSE -1))

\* (S|make_score)\((?P<m>\s*[-\d]+)\s*,(?P<e>\s*[-\d]+)\s*\)  at offset q
score_at(t, q) ==
    Let(IF at(t, "S(", q) THEN q + 2
        ELSE IF at(t, "make_score(", q) THEN q + 11 ELSE -1, LAMBDA open :
    Let(IF open = -1 THEN -1 ELSE number_end(t, open, SpaceCh), LAMBDA m1 :
    Let(IF m1 = -1 THEN -1 ELSE run_end(t, m1, SpaceCh), LAMBDA comma :
    Let(IF comma = -1 \/ ch(t, comma) # "," THEN -1
        ELSE number_end(t, comma + 1, SpaceCh), LAMBDA e1 :
    Let(IF e1 = -1 THEN -1 ELSE run_end(t, e1, SpaceCh), LAMBDA close :
        IF close # -1 /\ ch(t, close) = ")"
        THEN [ok |-> TRUE, g |-> [m |-> <<open, m1>>, e |-> <<comma + 1, e1>>]]
        ELSE NoMatch)))))

\* (?P<enum>\w+)  at offset q
enum_at(t, q) ==
    LET e == run_end(t, q, WordCh)
    IN  IF e > q THEN [ok |-> TRUE, g |-> [v |-> None, enum |-> <<q, e>>]] ELSE NoMatch

\* (((V|Value)\((?P<v>\s*[-\d]+)\s*\))|(?P<enum>\w+))  at offset q
value_at(t, q) ==
    Let(IF at(t, "V(", q) THEN q + 2
        ELSE IF at(t, "Value(", q) THEN q + 6 ELSE -1, LAMBDA open :
    Let(IF open = -1 THEN -1 ELSE number_end(t, open, SpaceCh), LAMBDA v1 :
    Let(IF v1 = -1 THEN -1 ELSE run_end(t, v1, SpaceCh), LAMBDA close :
        IF close # -1 /\ ch(t, close) = ")"
        THEN [ok |-> TRUE, g |-> [v |-> <<open, v1>>, enum |-> None]]
        ELSE enum_at(t, q))))

\* ((?P<v>[ \t]*[-\d]+)|(?P<enum>\w+))  at offset q
int_at(t, q) ==
    Let(number_end(t, q, BlankCh), LAMBDA v1 :
        IF v1 # -1 THEN [ok |-> TRUE, g |-> [v |-> <<q, v1>>, enum |-> None]]
        ELSE enum_at(t, q))

pattern_at(t, kind, q) ==
    CASE kind = "score" -> score_at(t, q)
      [] kind = "value" -> value_at(t, q)
      [] kind = "int" -> int_at(t, q)

\* (?:(?!#|//).)*?  then the pattern: the lazy prefix grows one character at a
\* time, over anything but a newline, a "#" or a "//"
lazy_prefix(t, kind, p) ==
    Let(SetMin({k \in p .. Len(t) : ch(t, k) \in {"", "\n", "#"} \/ at(t, "//", k)}),
        LAMBDA stop :
    Let([q \in p .. stop |-> pattern_at(t, kind, q)], LAMBDA m :
    Let({q \in DOMAIN m : m[q].ok}, LAMBDA hits :
        IF hits = {} THEN NoMatch ELSE m[SetMin(hits)])))

\* re.search(pattern, t, re.MULTILINE)
value_search(t, kind) ==
    Let([p \in line_starts(t) |-> lazy_prefix(t, kind, p)], LAMBDA m :
    Let({p \in DOMAIN m : m[p].ok}, LAMBDA hits :
        IF hits = {} THEN NoMatch ELSE m[SetMin(hits)]))


----------------------------------------------------------------------------
(* ResultParser: the request line, and InputParser.read_line.              *)

\* [[\]\w\s]
IdxCh == {"[", "]"} \cup WordCh \cup SpaceCh

\* [\w.-]
ValCh == WordCh \cup {".", "-"}

\* line.rstrip()
rstrip(s) == slice(s, 0, run_start(s, Len(s), SpaceCh))

\* re.match(ResultParser.regex_pattern, s): [ok, name, indices, value_new, value_old]
read_line(s) ==
    Let(run_end(s, 0, SpaceCh), LAMBDA a :
    Let(a + 7, LAMBDA n0 :
    Let(run_end(s, n0, WordCh), LAMBDA n1 :
    Let(run_end(s, n1, IdxCh), LAMBDA i1 :
    Let(i1 + 8, LAMBDA b0 :
    Let(run_end(s, b0, ValCh), LAMBDA b1 :
    Let(b1 + 9, LAMBDA o0 :
    Let(run_end(s, o0, ValCh), LAMBDA o1 :
        IF at(s, "param: ", a) /\ at(s, ", best: ", i1) /\ at(s, ", start: ", b1)
        THEN [ok |-> TRUE, name |-> slice(s, n0, n1), indices |-> slice(s, n1, i1),
              value_new |-> slice(s, b0, b1), value_old |-> slice(s, o0, o1)]
        ELSE NoMatch))))))))

----------------------------------------------------------------------------
(* Repository.process_spsa_match: the value patcher.                       *)
(* The result is [outcome, files, edit]: how the request ended, the files  *)
(* after it, and the span of the file that was replaced and by what.  An   *)
(* outcome that starts with exc_ is an exception the request raised, which *)
(* InputParser.process catches.                                            *)

NoEdit == [file |-> 0, start |-> 0, end |-> 0, new_val |-> ""]

\* a request that ends before f.write is reached
skipped(fs, outcome_) == [outcome |-> outcome_, files |-> fs, edit |-> NoEdit]

\* x in ("int"): a substring test, the parentheses make no tuple
in_int(x) == \E i \in 0 .. 3 : at("int", x, i)

\* SourceFile.__init__ with in_memory: orig and curr are what the file holds
SourceFile(text) == [orig |-> text, curr |-> text, disk |-> text]

\* SourceFile.write of an in-memory file
write(fs, k, text) == [fs EXCEPT ![k].curr = text]

\* Repository.save: SourceFile.save of every file
save(fs) == [k \in 1 .. Len(fs) |-> [fs[k] EXCEPT !.disk = fs[k].curr]]

\* A variant of splice that puts the new value in as it is, not right-justified.
splice_unpadded(fs, mi, md, i, text, mv, prefix, new_val) ==
    LET span == mv.g[prefix]
        old == slice(text, span[1], span[2])
        whole == fs[md.file].curr
        fstr == slice(whole, 0, md.start + i + span[1])
                \o new_val
                \o slice_from(whole, md.start + i + span[2])
    IN  IF ~py_int(old).ok \/ ~py_float(mi.value_old).ok
        THEN skipped(fs, "exc_value")
        ELSE [outcome |-> "ok", files |-> write(fs, md.file, fstr),
              edit |-> [file |-> md.file, start |-> md.start + i + span[1],
                        end |-> md.start + i + span[2], new_val |-> new_val]]

\* A variant of splice that writes the file before the old value is read.
splice_write_first(fs, mi, md, i, text, mv, prefix, new_val) ==
    LET span == mv.g[prefix]
        old == slice(text, span[1], span[2])
        whole == fs[md.file].curr
        fstr == slice(whole, 0, md.start + i + span[1])
                \o rjust(new_val, Len(old))
                \o slice_from(whole, md.start + i + span[2])
        edit_ == [file |-> md.file, start |-> md.start + i + span[1],
                  end |-> md.start + i + span[2], new_val |-> new_val]
    IN  IF ~py_int(old).ok \/ ~py_float(mi.value_old).ok
        THEN [outcome |-> "exc_value", files |-> write(fs, md.file, fstr), edit |-> edit_]
        ELSE [outcome |-> "ok", files |-> write(fs, md.file, fstr), edit |-> edit_]

\* lines 234-245: the old value is read, the new one spliced in and written
splice(fs, mi, md, i, text, mv, prefix, new_val) ==
    LET span == mv.g[prefix]
        old == slice(text, span[1], span[2])
        whole == fs[md.file].curr
        fstr == slice(whole, 0, md.start + i + span[1])
                \o rjust(new_val, Len(old))
                \o slice_from(whole, md.start + i + span[2])
    IN  IF ~py_int(old).ok \/ ~py_float(mi.value_old).ok
        THEN skipped(fs, "exc_value")
        ELSE [outcome |-> "ok", files |-> write(fs, md.file, fstr),
              edit |-> [file |-> md.file, start |-> md.start + i + span[1],
                        end |-> md.start + i + span[2], new_val |-> new_val]]

\* lines 219-232: the slot holds a symbol, its defining enum is patched instead
enum_fallback(fs, mi, s2i, mv, new_val) ==
    Let(slice(s2i, mv.g.enum[1], mv.g.enum[2]), LAMBDA enum_name :
    Let(search_def(fs, enum_name, TRUE), LAMBDA md :
        IF ~md.ok THEN skipped(fs, "fallback_failed")
        ELSE Let(group0(fs, md), LAMBDA text :
             Let(assign_search(text, enum_name, FALSE), LAMBDA ma :
                 IF ~ma.ok THEN skipped(fs, "exc_assert")
                 ELSE splice(fs, mi, md, 0, text,
                             [ok |-> TRUE, g |-> [v |-> <<ma.vstart, ma.vend>>]], "v",
                             new_val)))))

\* lines 198-245, with the definition found
patch(fs, mi, prefix, indices, md, f_round) ==
    Let(group0(fs, md), LAMBDA s2 :
    Let(find_index(s2, indices), LAMBDA i :
    Let(py_float(mi.value_new), LAMBDA x :
    Let(py_str(apply_rounding(f_round, x.num, x.den)), LAMBDA new_val :
    Let(IF prefix \in {"m", "e"} THEN "score"
        ELSE IF md.type = "Value" THEN "value"
        ELSE IF in_int(md.type) THEN "int" ELSE "unknown", LAMBDA kind :
    Let(slice_from(s2, i), LAMBDA s2i :
    Let(value_search(s2i, kind), LAMBDA mv :
        IF ~x.ok THEN skipped(fs, "exc_value")
        ELSE IF (md.type = "Score") # (prefix \in {"m", "e"})
        THEN skipped(fs, "exc_assert")
        ELSE IF kind = "unknown" THEN skipped(fs, "unknown_type")
        ELSE IF ~mv.ok THEN skipped(fs, "not_found")
        ELSE IF mv.g[prefix] = None THEN enum_fallback(fs, mi, s2i, mv, new_val)
        ELSE splice(fs, mi, md, i, s2i, mv, prefix, new_val))))))))

process_spsa_match(fs, mi, f_round) ==
    Let(ch(mi.name, 0) \in {"m", "e"}, LAMBDA pre :
    Let(IF pre THEN slice_from(mi.name, 1) ELSE mi.name, LAMBDA name :
    Let(IF pre THEN ch(mi.name, 0) ELSE "v", LAMBDA prefix :
    Let(parse_indices(fs, mi.indices), LAMBDA indices :
        IF ~indices.ok THEN skipped(fs, "exc_index")
        ELSE Let(search_def(fs, name, FALSE), LAMBDA md :
                 IF ~md.ok THEN skipped(fs, "def_not_found")
                 ELSE patch(fs, mi, prefix, indices.l, md, f_round))))))

\* the body of the for loop of InputParser.process, for one input line
process_line(fs, raw, f_round) ==
    Let(rstrip(raw), LAMBDA ln :
        IF ln = "" THEN skipped(fs, "empty_line")
        ELSE Let(read_line(ln), LAMBDA mi :
                 IF ~mi.ok THEN skipped(fs, "invalid_line")
                 ELSE process_spsa_match(fs, mi, f_round)))

----------------------------------------------------------------------------
(* Repository.align: one pairwise pass of the column aligner.              *)

\* the characters str.splitlines breaks a text at
LineBreak == {"\n", "\r"}

\* s.splitlines(): the lines of s without their line breaks
RECURSIVE splitlines(_)
splitlines(s) ==
    LET brk == {k \in 0 .. (Len(s) - 1) : ch(s, k) \in LineBreak}
        k == SetMin(brk)
        next == IF ch(s, k) = "\r" /\ ch(s, k + 1) = "\n" THEN k + 2 ELSE k + 1
    IN  IF s = "" THEN <<>>
        ELSE IF brk = {} THEN <<s>>
        ELSE <<slice(s, 0, k)>> \o splitlines(slice_from(s, next))

\* the characters the format pattern of a line keeps
FormatCh == {"{", "}", "(", ")", ","}

\* re.sub('[^{}\(\),]*', '', line)
RECURSIVE format_pattern(_)
format_pattern(ln) ==
    IF ln = "" THEN ""
    ELSE (IF ch(ln, 0) \in FormatCh THEN ch(ln, 0) ELSE "") \o format_pattern(slice_from(ln, 1))

\* p.rstrip(',')
rstrip_commas(p) == slice(p, 0, run_start(p, Len(p), {","}))

\* len(os.path.commonprefix([a, b]))
commonprefix(a, b) ==
    SetMax({k \in 0 .. Min(Len(a), Len(b)) : SubSeq(a, 1, k) = SubSeq(b, 1, k)})

\* n * ' '
RECURSIVE blanks(_)
blanks(n) == IF n <= 0 THEN "" ELSE " " \o blanks(n - 1)

\* A variant of the inner loop that moves the line that is behind one column
\* too far.
RECURSIVE align_chars_overshoot(_, _, _, _, _, _)
align_chars_overshoot(l0, l1, pat, k, n, pos_old) ==
    IF k > n THEN <<l0, l1>>
    ELSE LET j == ch(pat, k - 1)
             pos0 == str_find(l0, j, pos_old + 1)
             pos1 == str_find(l1, j, pos_old + 1)
             m0 == IF pos0 < pos1
                   THEN slice(l0, 0, pos_old + 1) \o blanks(pos1 - pos0 + 1) \o slice_from(l0, pos_old + 1)
                   ELSE l0
             m1 == IF pos0 > pos1
                   THEN slice(l1, 0, pos_old + 1) \o blanks(pos0 - pos1 + 1) \o slice_from(l1, pos_old + 1)
                   ELSE l1
         IN  align_chars_overshoot(m0, m1, pat, k + 1, n, Max(pos0, pos1) + 1)

\* the inner loop of align: the characters pat[k..n] (one-based) are brought to the
\* same column in the lines l0 and l1
RECURSIVE align_chars(_, _, _, _, _, _)
align_chars(l0, l1, pat, k, n, pos_old) ==
    IF k > n THEN <<l0, l1>>
    ELSE LET j == ch(pat, k - 1)
             pos0 == str_find(l0, j, pos_old + 1)
             pos1 == str_find(l1, j, pos_old + 1)
             m0 == IF pos0 < pos1
                   THEN slice(l0, 0, pos_old + 1) \o blanks(pos1 - pos0) \o slice_from(l0, pos_old + 1)
                   ELSE l0
             m1 == IF pos0 > pos1
                   THEN slice(l1, 0, pos_old + 1) \o blanks(pos0 - pos1) \o slice_from(l1, pos_old + 1)
                   ELSE l1
         IN  align_chars(m0, m1, pat, k + 1, n, Max(pos0, pos1))

\* the condition under which the lines i and i+1 (zero-based) are aligned
adjacent(lines, fp, i) ==
    /\ Len(fp[i + 1]) > 0
    /\ rstrip_commas(fp[i + 1]) = rstrip_commas(fp[i + 2])
    /\ \/ ch(fp[i + 1], 0) # "{"
       \/ commonprefix(lines[i + 1], lines[i + 2]) >= str_find(lines[i + 1], ch(fp[i + 1], 0), 0)

\* for i in xrange(max(len(lines) - 1, 0)), from i on
RECURSIVE align_lines(_, _, _)
align_lines(lines, fp, i) ==
    IF i >= Len(lines) - 1 THEN lines
    ELSE IF adjacent(lines, fp, i)
    THEN LET r == align_chars(lines[i + 1], lines[i + 2], fp[i + 1], 1,
                              commonprefix(fp[i + 1], fp[i + 2]), -1)
         IN  align_lines([lines EXCEPT ![i + 1] = r[1], ![i + 2] = r[2]], fp, i + 1)
    ELSE align_lines(lines, fp, i + 1)

\* "\n".join(lines)
RECURSIVE join(_)
join(lines) ==
    IF lines = <<>> THEN ""
    ELSE IF Len(lines) = 1 THEN lines[1]
    ELSE lines[1] \o "\n" \o join(Tail(lines))

align(s) ==
    LET lines == splitlines(s)
        format_patterns == [i \in 1 .. Len(lines) |-> format_pattern(lines[i])]
    IN  join(align_lines(lines, format_patterns, 0))

----------------------------------------------------------------------------
(* A run of InputParser.process for a ResultParser (mode spsa).            *)

\* The source directory: a header with an enum and a file of definitions.
TypesH == "enum T { XSYM = 3, SYM = 7 };\n"

SearchCpp ==
    "int margin[2] = {100, 200};\n" \o
    "int bonus[2] = {100, 200};\n" \o
    "int Foo = 5;\n" \o
    "int arr[2] = {SYM, 5};\n" \o
    "double d = 1;\n"

\* Repository.__init__: one SourceFile per source file of the directory
Repository == <<SourceFile(TypesH), SourceFile(SearchCpp)>>

\* The input lines a run may be given.
Requests ==
    {"param: margin[1], best: 250, start: 200",
     "param: bonus[1], best: 250, start: 200",
     "param: bonus[0], best: 5, start: 100",
     "param: bonus[1], best: 1000, start: 200",
     "param: bonus[0], best: 12.5, start: 100\n",
     "param: bonus[2], best: 250, start: 200",
     "param: bonus[3], best: 250, start: 200",
     "param: bonus[NOPE], best: 250, start: 200",
     "param: bonus[1], best: 250, start: x",
     "param: bonus[1], best: x, start: 200",
     "param: Foo, best: 7, start: 5",
     "param: mFoo, best: 7, start: 5",
     "param: arr[0], best: 9, start: 7",
     "param: arr[1], best: 6, start: 5",
     "param: d, best: 2, start: 1",
     "param: nosuch, best: 2, start: 1",
     "bonus[1] = 250",
     "\n"}

\* the keys of ROUNDING
ROUNDING == {"round", "ceil", "floor"}

\* lines 355-358: the bare except catches whatever process_match raises, and the
\* for loop goes on with the next line
after_line(result) == "loop"

InitProcess ==
    /\ files = Repository
    /\ before = Repository
    /\ line = ""
    /\ outcome = "none"
    /\ nproc = 0
    /\ pc = "loop"
    /\ rounding \in ROUNDING
    /\ arg = <<>> /\ res = NoEdit
    /\ current = "" /\ previous = "" /\ passes = 0

\* one turn of the for loop of InputParser.process
ProcessLine ==
    /\ pc = "loop"
    /\ nproc < MaxRequests
    /\ \E raw \in Requests : \E r \in {process_line(files, raw, rounding)} :
         /\ files' = r.files
         /\ before' = files
         /\ line' = raw
         /\ outcome' = r.outcome
         /\ res' = r.edit
         /\ pc' = after_line(r.outcome)
    /\ nproc' = nproc + 1
    /\ UNCHANGED <<arg, current, previous, passes, rounding>>

\* the end of InputParser.process: the diff is printed or the files are saved
Finish ==
    /\ pc = "loop"
    /\ \E dry_run \in BOOLEAN :
         files' = IF dry_run THEN files ELSE save(files)
    /\ pc' = "done"
    /\ UNCHANGED <<before, line, outcome, nproc, arg, res, current, previous, passes, rounding>>

Next == ProcessLine \/ Finish

Spec == InitProcess /\ [][Next]_vars

----------------------------------------------------------------------------
(* What the claims about value edits speak of, read off the texts without  *)
(* the operators of the patcher.                                           *)

\* the orig and curr of every file
contents(fs) == [k \in 1 .. Len(fs) |-> <<fs[k].orig, fs[k].curr>>]

\* the request of the line handled last, and the decimal text of its new value
request == read_line(rstrip(line))
new_text ==
    LET x == py_float(request.value_new)
    IN  py_str(apply_rounding(rounding, x.num, x.den))
plain_request ==
    /\ nproc > 0
    /\ request.ok
    /\ py_float(request.value_new).ok
    /\ py_float(request.value_old).ok

\* the k-th least element (k from 0) of a set of integers, -1 if there is none
RECURSIVE kth(_, _)
kth(S, k) ==
    IF S = {} THEN -1
    ELSE IF k = 0 THEN SetMin(S)
    ELSE kth(S \ {SetMin(S)}, k - 1)

\* A one-dimensional array  int NAME[..] = {e0, e1, ...};  of plain elements in
\* text: where its braces are, how many elements it has, and the span of the
\* literal of element k (blanks before the literal left out).
array_decl(text, name) ==
    LET p == str_find(text, "int " \o name \o "[", 0)
    IN  IF p # -1 /\ is_line_start(text, p) THEN p ELSE -1
array_open(text, name) == str_find(text, "{", array_decl(text, name))
array_close(text, name) == str_find(text, "}", array_decl(text, name))
array_separators(text, name) ==
    {c \in (array_open(text, name) + 1) .. (array_close(text, name) - 1) : ch(text, c) = ","}
array_len(text, name) == Cardinality(array_separators(text, name)) + 1
element_start(text, name, k) ==
    LET sep == kth({array_open(text, name)} \cup array_separators(text, name), k)
    IN  run_end(text, sep + 1, SpaceCh)
literal_span(text, a) == <<a, run_end(text, a, NumCh)>>
symbol_span(text, a) == <<a, run_end(text, a, WordCh)>>

\* text with the span sp replaced by t, right-justified in the span's width
replaced(text, sp, t) == slice(text, 0, sp[1]) \o rjust(t, sp[2] - sp[1]) \o slice_from(text, sp[2])

\* the same, where the blanks right before the literal may count as part of it
replaced_blanks(text, sp, t) ==
    {replaced(text, <<a, sp[2]>>, t) : a \in run_start(text, sp[1], BlankCh) .. sp[1]}

\* the files fs with the curr of file k replaced by text, nothing else touched
with_curr(fs, k, text) == contents([fs EXCEPT ![k].curr = text])

\* the request names a one-dimensional int array of file k and one integer index
targets_array(k) ==
    /\ plain_request
    /\ array_decl(before[k].curr, request.name) # -1
    /\ Len(request.indices) >= 3
    /\ ch(request.indices, 0) = "["
    /\ ch(request.indices, Len(request.indices) - 1) = "]"
    /\ py_int(slice(request.indices, 1, Len(request.indices) - 1)).ok
index_k == py_int(slice(request.indices, 1, Len(request.indices) - 1)).val
in_range(k) == index_k >= 0 /\ index_k < array_len(before[k].curr, request.name)
holds_literal(k) ==
    LET sp == literal_span(before[k].curr, element_start(before[k].curr, request.name, index_k))
    IN  sp[2] > sp[1]
holds_symbol(k) ==
    LET sp == symbol_span(before[k].curr, element_start(before[k].curr, request.name, index_k))
    IN  sp[2] > sp[1] /\ ch(before[k].curr, sp[1]) \in Letter
slot_symbol(k) ==
    LET sp == symbol_span(before[k].curr, element_start(before[k].curr, request.name, index_k))
    IN  slice(before[k].curr, sp[1], sp[2])

\* a scalar  int NAME = literal;  in text: where it starts, or -1
scalar_decl(text, name) ==
    LET p == str_find(text, "int " \o name \o " = ", 0)
    IN  IF p # -1 /\ is_line_start(text, p) THEN p ELSE -1
scalar_literal(text, name) == literal_span(text, scalar_decl(text, name) + Len(name) + 7)

\* the entry  SYM = k  of SYM itself in an enum block of text: where it starts, or -1
own_assignment(text, sym) ==
    LET hits == {i \in 1 .. Len(text) : at(text, sym \o " = ", i) /\ ch(text, i - 1) \notin WordCh}
    IN  IF str_find(text, "enum ", 0) = -1 \/ hits = {} THEN -1 ELSE SetMin(hits)
own_literal(text, sym) == literal_span(text, own_assignment(text, sym) + Len(sym) + 3)

\* the ways the handling of a request fails
Failure ==
    {"def_not_found", "unknown_type", "exc_assert", "not_found", "exc_index",
     "fallback_failed", "exc_value"}

----------------------------------------------------------------------------
(* The claims about value edits, under Spec.                               *)

\* C1: after a plain request on element k, in range, of a one-dimensional int
\* array whose slot holds a literal, the owning file is what it was with that
\* literal (with or without blanks before it) replaced by the new value, and
\* nothing else has changed.  It fails for `int margin[2] = {100, 200};` and
\* `param: margin[1], best: 250, start: 200`.
C1_ArrayElementReplaced ==
    \A k \in 1 .. Len(before) :
        (targets_array(k) /\ in_range(k) /\ holds_literal(k))
        => LET text == before[k].curr
               sp == literal_span(text, element_start(text, request.name, index_k))
           IN  \E t \in replaced_blanks(text, sp, new_text) :
                   contents(files) = with_curr(before, k, t)

\* C3: after a plain request without index groups on a scalar int definition the
\* literal right of the "=" (with or without blanks before it) is replaced by the
\* new value and nothing else has changed.  It
\* fails for `int Foo = 5;` and `param: Foo, best: 7, start: 5`.
C3_ScalarRewritten ==
    \A k \in 1 .. Len(before) :
        (plain_request /\ request.indices = "" /\ scalar_decl(before[k].curr, request.name) # -1)
        => LET text == before[k].curr
           IN  \E t \in replaced_blanks(text, scalar_literal(text, request.name), new_text) :
                   contents(files) = with_curr(before, k, t)

\* C4: an edit whose new decimal text is no longer than the span it replaces
\* leaves the length of the owning file as it was, changes no character outside
\* the span, in no file, and puts the new text right-justified into the span.
C4_WidthPreserved ==
    (nproc > 0 /\ outcome = "ok" /\ Len(res.new_val) <= res.end - res.start)
    => LET old == before[res.file].curr
           new == files[res.file].curr
           pad == res.end - Len(res.new_val)
       IN  /\ Len(new) = Len(old)
           /\ slice(new, 0, res.start) = slice(old, 0, res.start)
           /\ slice_from(new, res.end) = slice_from(old, res.end)
           /\ all_in(new, res.start, pad, {" "})
           /\ slice(new, pad, res.end) = res.new_val
           /\ contents(files) = with_curr(before, res.file, new)

\* C4 happens: an edit has put a text narrower than the span into a file.
C4_Witness ==
    /\ nproc > 0 /\ outcome = "ok"
    /\ Len(res.new_val) < res.end - res.start
    /\ files[res.file].curr # before[res.file].curr

\* C5: when the slot a request selects holds a symbol that has an assignment
\* SYM = k of its own in an enum block, the integer of that assignment is the new
\* value afterwards and nothing else has changed.  It fails for
\* `enum T { XSYM = 3, SYM = 7 };` with `int arr[2] = {SYM, 5};` and arr[0].
C5_EnumPatched ==
    \A k \in 1 .. Len(before) : \A e \in 1 .. Len(before) :
        (/\ targets_array(k) /\ in_range(k) /\ holds_symbol(k)
         /\ own_assignment(before[e].curr, slot_symbol(k)) # -1)
        => LET text == before[e].curr
           IN  contents(files) =
                   with_curr(before, e, replaced(text, own_literal(text, slot_symbol(k)), new_text))

\* C8: a request whose handling fails leaves the orig and the curr of every file
\* as they were before it, and the loop goes on: the next line is handled.
C8_FailureIsolated ==
    (nproc > 0 /\ outcome \in Failure)
    => /\ contents(files) = contents(before)
       /\ pc \in {"loop", "done"}
       /\ (pc = "loop" /\ nproc < MaxRequests) => ENABLED ProcessLine

\* C8 happens: a request failed after an earlier one had changed a file.
C8_Witness ==
    /\ nproc = 2 /\ outcome \in Failure /\ pc = "loop"
    /\ contents(before) # contents(Repository)

\* C9: a request whose index is not below the number of elements of the array
\* ends as not found, and no file is changed.  It fails for
\* `int bonus[2] = {100, 200};` and `param: bonus[3], best: 250, start: 200`.
C9_OutOfRangeSkipped ==
    \A k \in 1 .. Len(before) :
        (targets_array(k) /\ index_k >= array_len(before[k].curr, request.name))
        => /\ outcome = "not_found"
           /\ contents(files) = contents(before)

----------------------------------------------------------------------------
(* find_index on its own: a definition text and an index path go in, an    *)
(* offset comes out.                                                       *)

\* sep.join(parts)
RECURSIVE join_with(_, _)
join_with(parts, sep) ==
    IF parts = <<>> THEN ""
    ELSE IF Len(parts) = 1 THEN parts[1]
    ELSE parts[1] \o sep \o join_with(Tail(parts), sep)

\* the sequences of 1 to n members of S
SeqsUpTo(S, n) == UNION {[1 .. m -> S] : m \in 1 .. n}

\* Elements of a one-dimensional initializer: literals and calls, one of them
\* with two parenthesized groups.
Elements == {"10", " 20", " f(1,2)", " f(1,2)+g(3,4)"}

\* Elements of the rows of a two-dimensional initializer.
RowElements == {"1", " f(1,2)"}

braced(parts) == "{" \o join_with(parts, ",") \o "}"

\* Well-formed initializers of one and of two dimensions.
Initializers1 == {braced(es) : es \in SeqsUpTo(Elements, MaxIdx)}
Initializers2 ==
    {braced([i \in 1 .. Len(rows) |-> braced(rows[i])]) :
        rows \in SeqsUpTo(SeqsUpTo(RowElements, 2), 2)}
DefinitionTexts == {"int arr[] = " \o b \o ";" : b \in Initializers1 \cup Initializers2}

\* Index paths, the empty one included.
IndexPaths == UNION {[1 .. n -> 0 .. MaxIdx] : n \in 0 .. MaxDims}

InitFind ==
    /\ arg \in [s : DefinitionTexts, l : IndexPaths]
    /\ res = -1
    /\ pc = "call"
    /\ files = <<>> /\ before = <<>> /\ line = "" /\ outcome = "none" /\ nproc = 0
    /\ current = "" /\ previous = "" /\ passes = 0 /\ rounding = "round"

\* i = find_index(s2, indices)
FindIndex ==
    /\ pc = "call"
    /\ res' = find_index(arg.s, arg.l)
    /\ pc' = "return"
    /\ UNCHANGED <<files, before, line, outcome, nproc, arg, current, previous, passes, rounding>>

NextFind == FindIndex

SpecFind == InitFind /\ [][NextFind]_vars

----------------------------------------------------------------------------
(* The element an index path selects, found by the depth of every offset.  *)

\* the number of open braces, and of open parentheses, at offset p
brace_depth(s, p) == count_in(s, "{", 0, p) - count_in(s, "}", 0, p)
paren_depth(s, p) == count_in(s, "(", 0, p) - count_in(s, ")", 0, p)

\* the commas that separate the elements of the array whose braces are at
\* open and close: those right inside its braces and outside every parenthesis
separators(s, open, close) ==
    {c \in (open + 1) .. (close - 1) :
        /\ ch(s, c) = ","
        /\ brace_depth(s, c) = brace_depth(s, open) + 1
        /\ paren_depth(s, c) = paren_depth(s, open)}

\* the brace that closes the one at open
closing(s, open) ==
    SetMin({c \in (open + 1) .. Len(s) :
               ch(s, c) = "}" /\ brace_depth(s, c + 1) = brace_depth(s, open)})

\* The element the path l selects, from component j on, in the array whose braces
\* are at open and close: [ok, start], start the offset of its first character;
\* ok is FALSE when a component is out of range.
RECURSIVE selected(_, _, _, _, _)
selected(s, l, j, open, close) ==
    LET seps == separators(s, open, close)
        from == kth({open} \cup seps, l[j]) + 1
        a == run_end(s, from, SpaceCh)
    IN  IF l[j] > Cardinality(seps) THEN [ok |-> FALSE, start |-> -1]
        ELSE IF j = Len(l) THEN [ok |-> TRUE, start |-> a]
        ELSE IF ch(s, a) # "{" THEN [ok |-> FALSE, start |-> -1]
        ELSE selected(s, l, j + 1, a, closing(s, a))

\* the same from the outermost braces of a definition text
element_of(s, l) ==
    LET open == str_find(s, "{", str_find(s, "=", 0))
    IN  IF l = <<>> THEN [ok |-> TRUE, start |-> run_end(s, open + 1, SpaceCh)]
        ELSE selected(s, l, 1, open, closing(s, open))

\* C2: for a well-formed initializer and an index path in range, the offset
\* find_index returns is at or before the selected element, with nothing but
\* separators, opening braces and white space in between.  It fails for
\* `int arr[] = {10, f(1,2)+g(3,4), 10};` and the path [2].
C2_SelectsElement ==
    (pc = "return" /\ element_of(arg.s, arg.l).ok)
    => LET t == element_of(arg.s, arg.l).start
       IN  /\ res >= 0
           /\ res <= t
           /\ all_in(arg.s, res, t, {",", "{"} \cup SpaceCh)

----------------------------------------------------------------------------
(* Repository.parse_indices on its own, for one index token that names an  *)
(* entry of an enum block.                                                 *)

\* The names the entries of an enum block are taken from, and what follows a
\* name: nothing, or an explicit value.
EntryNames == {"A", "B", "AB", "XB"}
EntryValues == {"", "5"}

\* The bodies of enum blocks: up to MaxEntries entries of different names.
EnumBodies ==
    {es \in SeqsUpTo([name : EntryNames, val : EntryValues], MaxEntries) :
        \A i \in 1 .. Len(es) : \A j \in 1 .. Len(es) : es[i].name = es[j].name => i = j}

\* the text of an entry, and of the block
entry_text(e) == IF e.val = "" THEN e.name ELSE e.name \o " = " \o e.val
enum_text(es) ==
    "enum E { " \o join_with([i \in 1 .. Len(es) |-> entry_text(es[i])], ", ") \o " };\n"

InitEnum ==
    /\ \E es \in EnumBodies : \E i \in 1 .. Len(es) :
          arg = [entries |-> es, at |-> i, tok |-> es[i].name]
    /\ res = [ok |-> FALSE, l |-> <<>>]
    /\ pc = "call"
    /\ files = <<>> /\ before = <<>> /\ line = "" /\ outcome = "none" /\ nproc = 0
    /\ current = "" /\ previous = "" /\ passes = 0 /\ rounding = "round"

\* indices = self.parse_indices("[tok]") in a directory that holds the block
ParseIndices ==
    /\ pc = "call"
    /\ res' = parse_indices(<<SourceFile(enum_text(arg.entries))>>, "[" \o arg.tok \o "]")
    /\ pc' = "return"
    /\ UNCHANGED <<files, before, line, outcome, nproc, arg, current, previous, passes, rounding>>

NextEnum == ParseIndices

SpecEnum == InitEnum /\ [][NextEnum]_vars

\* the value of entry number i of the body es: its own explicit value when it
\* has one, else the number of entries before it
entry_index(es, i) == IF es[i].val # "" THEN py_int(es[i].val).val ELSE i - 1

\* C6: an index token that names an entry of an enum block resolves to the
\* explicit value of that entry when it has one, and to the number of entries
\* before it otherwise.  It fails for `enum E { AB, B };` and the token B.
C6_EnumIndexResolved ==
    pc = "return" => (res.ok /\ res.l = <<entry_index(arg.entries, arg.at)>>)

----------------------------------------------------------------------------
(* Repository.align_array for one request of an AlignParser.               *)

\* Rows of a two-column table, the first column of three widths.
TableRows == {"{1, 2}", "{10, 2}", "{100, 2}", "{1, 20}", " {1, 2}"}

\* A file that holds the table t, one row per line.
table_file(rows) == "int t[] = {\n" \o join_with(rows, ",\n") \o "\n};\n"

\* The files a request may meet: the tables, and a file without the table.
AlignFiles == {table_file(rows) : rows \in SeqsUpTo(TableRows, MaxRows)} \cup {"int u = 1;\n"}

\* The definition texts of the tables: a file up to its semicolon.
TableDefinitions == {slice(text, 0, str_find(text, ";", 0) + 1) : text \in AlignFiles}

\* the texts that up to n passes of align lead to from the texts in frontier
RECURSIVE reached(_, _, _)
reached(done, frontier, n) ==
    IF n = 0 \/ frontier = {} THEN done \cup frontier
    ELSE reached(done \cup frontier, {align(x) : x \in frontier} \ (done \cup frontier), n - 1)

\* self.align on the texts the loop can meet, evaluated once
aligned == [x \in reached({}, TableDefinitions, MaxPasses) |-> align(x)]

\* A variant of the loop condition under which only the first pass is made.
while_first_pass(current_, previous_) == current_ # previous_ /\ previous_ = ""

\* line 282: while current != previous
while_condition(current_, previous_) == current_ # previous_

InitAlign ==
    /\ \E text \in AlignFiles : files = <<SourceFile(text)>>
    /\ before = files
    /\ arg = "t"
    /\ res = NoMatch
    /\ pc = "search"
    /\ current = "" /\ previous = "" /\ passes = 0
    /\ line = "" /\ outcome = "none" /\ nproc = 0 /\ rounding = "round"

\* lines 275-281: the definition is looked up; current is its text
AlignSearch ==
    /\ pc = "search"
    /\ \E match_definition \in {search_def(files, arg, FALSE)} :
         /\ res' = match_definition
         /\ IF match_definition.ok
            THEN /\ current' = group0(files, match_definition)
                 /\ previous' = ""
                 /\ pc' = "while"
            ELSE /\ pc' = "not_found"
                 /\ UNCHANGED <<current, previous>>
    /\ UNCHANGED <<files, before, line, outcome, nproc, arg, passes, rounding>>

\* lines 282-284: one pass of the loop
AlignPass ==
    /\ pc = "while"
    /\ while_condition(current, previous)
    /\ passes < MaxPasses
    /\ previous' = current
    /\ current' = aligned[current]
    /\ passes' = passes + 1
    /\ UNCHANGED <<files, before, line, outcome, nproc, pc, arg, res, rounding>>

\* lines 285-289: the loop is left and the aligned text written in place
AlignWrite ==
    /\ pc = "while"
    /\ ~while_condition(current, previous)
    /\ LET whole == files[res.file].curr
           fstr == slice(whole, 0, res.start) \o current \o slice_from(whole, res.end)
       IN  files' = write(files, res.file, fstr)
    /\ pc' = "written"
    /\ UNCHANGED <<before, line, outcome, nproc, arg, res, current, previous, passes, rounding>>

NextAlign == AlignSearch \/ AlignPass \/ AlignWrite

\* The loop runs in a sequential program: a pass that can be made is made, and
\* the loop is left when its condition fails.
SpecAlign == InitAlign /\ [][NextAlign]_vars /\ WF_vars(AlignPass) /\ WF_vars(AlignWrite)

----------------------------------------------------------------------------
(* The claims about alignment, under SpecAlign.                            *)

\* a line without its spaces
RECURSIVE without_spaces(_)
without_spaces(ln) ==
    IF ln = "" THEN ""
    ELSE (IF ch(ln, 0) = " " THEN "" ELSE ch(ln, 0)) \o without_spaces(slice_from(ln, 1))

\* the text b is the text a with spaces put into some of its lines
spaces_inserted(a, b) ==
    LET la == splitlines(a)
        lb == splitlines(b)
    IN  /\ Len(lb) = Len(la)
        /\ \A i \in 1 .. Len(la) :
              /\ Len(lb[i]) >= Len(la[i])
              /\ without_spaces(lb[i]) = without_spaces(la[i])

\* C7 as stated: what one pass of align makes of a definition text is left as it
\* is by another pass.  It fails for the rows {1, 2}, {10, 2}, {100, 2}.
C7_Idempotent ==
    (pc = "while" /\ passes = 1) => align(current) = current

\* C7 amended: the text the loop of align_array ends with, which is the text it
\* writes into the file, is left as it is by a pass of align.
C7_FixedPointWritten ==
    pc = "written"
    => /\ align(current) = current
       /\ slice(files[res.file].curr, res.start, res.start + Len(current)) = current

\* C7 happens: the loop has ended for a text that the second pass still changed.
C7_Witness ==
    pc = "written" /\ passes >= 3 /\ files # before

\* C10: the loop of align_array, once entered, is left, and every pass leaves
\* the number of lines as it is and only puts spaces into lines.
C10_Terminates ==
    /\ (pc = "while") ~> (pc = "written")
    /\ [][AlignPass => spaces_inserted(current, current')]_vars

\* C10 happens: a second pass of the loop has put more spaces into the text
\* that the first pass had made.
C10_Witness ==
    /\ pc = "while" /\ passes >= 2
    /\ Len(current) > Len(previous)
    /\ spaces_inserted(previous, current)

====
